---- MODULE Spec2Model ----
(***************************************************************************)
(* Model of kube::runtime::Informer (src/kube/src/runtime/informer.rs).    *)
(*                                                                         *)
(* The shared state of an Informer is three async mutexes: the             *)
(* resourceVersion string and the two recovery flags.  Three contexts act  *)
(* on it: the caller that runs poll(), the stream returned by poll() whose *)
(* `then` closure intercepts every item, and any other holder of a clone   *)
(* that calls reset() or version().  Every lock acquisition is a step of   *)
(* its own, so a lock that is held across a suspension point is visible.   *)
(***************************************************************************)
EXTENDS Naturals, Sequences, FiniteSets, TLC

\* ---------------------------------------------------------------- bounds
\* Longest raw sequence the server delivers through one stream.
MaxItems == 2

\* ------------------------------------------------------------- constants
\* informer.rs:41 and :150, `0.to_string()`
Sentinel == "0"
\* informer.rs:124, `e.code == 410`
Gone == 410
\* informer.rs:81, `Duration::from_secs(10)`
BackoffSecs == 10

\* Version tokens the server puts on entities, and the tokens a caller may
\* pass to init_from.  The server never assigns the sentinel to an entity.
EventTokens == {"1", "2"}
InitTokens == {"2", "42"}
NoRV == "none"
Tokens == {Sentinel} \cup EventTokens \cup InitTokens

\* Status codes an in-stream Error event may carry.
ErrorCodes == {Gone, 500}

\* WatchEvent<K> wrapped in Result: the items of the raw stream.
\* "Err" is the transport-level item failure (the Err(e) arm).
ObjectEvents ==
    [kind : {"Added", "Modified", "Deleted"}, rv : EventTokens \cup {NoRV}, code : {0}]
ErrorEvents == [kind : {"Error"}, rv : {NoRV}, code : ErrorCodes]
ItemErrs == [kind : {"Err"}, rv : {NoRV}, code : {0}]
Items == ObjectEvents \cup ErrorEvents \cup ItemErrs
NoItem == [kind |-> "none", rv |-> NoRV, code |-> 0]

\* Meta::resource_ver(o): Some(nv) or None.
HasResourceVer(e) == e.rv # NoRV

\* The test of line 124 left out: every Error event counts as a desync.
IsGone_AnyError(e) == e.kind = "Error"

\* line 124: Ok(WatchEvent::Error(e)) with e.code == 410
IsGone(e) == e.kind = "Error" /\ e.code = Gone

\* The match arm of lines 113-115 without Deleted.
UpdatesVersion_NoDeleted(e) ==
    e.kind \in {"Added", "Modified"} /\ HasResourceVer(e)

\* The match arm of lines 113-118 without the `if let Some(nv)` test.
UpdatesVersion_IgnoresNone(e) ==
    e.kind \in {"Added", "Modified", "Deleted"}

\* lines 113-118: Added(o) | Modified(o) | Deleted(o) whose object has
\* Some(nv) as its resourceVersion
UpdatesVersion(e) ==
    e.kind \in {"Added", "Modified", "Deleted"} /\ HasResourceVer(e)

VARIABLES
    version,            \* Arc<Mutex<String>>: the resourceVersion
    needs_resync,       \* Arc<Mutex<bool>>
    needs_retry,        \* Arc<Mutex<bool>>
    versionLock,        \* holder of version's mutex
    resyncLock,         \* holder of needs_resync's mutex
    retryLock,          \* holder of needs_retry's mutex
    pc,                 \* position of the poll() call
    resource_version,   \* poll()'s local: the token of the watch request;
                        \* kept after an Err return as the token of the
                        \* failed request, dropped on the other returns
    stream,             \* the stream poll() returned: none/open/ended/dropped
    raw,                \* items the Transport has delivered on this stream
    out,                \* items the stream has yielded to the caller
    event,              \* the item the `then` closure is processing
    spc,                \* position of the `then` closure
    epc,                \* position of a reset()/version() call of another context
    vret,               \* value a version() call has just returned
    slept,              \* seconds this poll() call has spent in delay_for
    flagged,            \* flags this poll() call found at its check; both
                        \* are kept after an Err return, dropped with Ok
    lastResult,         \* how the last poll() call returned
    touched,            \* the token was written by an event or a manual reset()
                        \* since the last request was built
    gone,               \* a 410 was yielded and no poll() call has returned since
    lastWrite,          \* the operation that wrote the token last
    seen,               \* version tokens of the entities delivered so far
    initArg,            \* the argument of init_from, if it was called
    pollNo              \* number of poll() calls begun, capped at 2

vars == <<version, needs_resync, needs_retry, versionLock, resyncLock, retryLock,
          pc, resource_version, stream, raw, out, event, spc, epc, vret,
          slept, flagged, lastResult, touched, gone, lastWrite, seen, initArg,
          pollNo>>

shared == <<version, needs_resync, needs_retry>>
locks == <<versionLock, resyncLock, retryLock>>
streamVars == <<stream, raw, out, event, spc>>
extVars == <<epc, vret>>
pollHist == <<slept, flagged, lastResult, pollNo>>
tokenHist == <<touched, lastWrite, seen, initArg>>

\* Informer::new
Init ==
    /\ version = Sentinel
    /\ needs_resync = FALSE
    /\ needs_retry = FALSE
    /\ versionLock = "free"
    /\ resyncLock = "free"
    /\ retryLock = "free"
    /\ pc = "idle"
    /\ resource_version = NoRV
    /\ stream = "none"
    /\ raw = <<>>
    /\ out = <<>>
    /\ event = NoItem
    /\ spc = "idle"
    /\ epc = "idle"
    /\ vret = NoRV
    /\ slept = 0
    /\ flagged = "unchecked"
    /\ lastResult = "none"
    /\ touched = FALSE
    /\ gone = FALSE
    /\ lastWrite = "new"
    /\ seen = {}
    /\ initArg = NoRV
    /\ pollNo = 0

\* init_from that drops v instead of storing it.
init_from_Discards(v) ==
    /\ pollNo = 0
    /\ initArg = NoRV
    /\ epc = "idle"
    /\ versionLock = "free"
    /\ initArg' = v
    /\ lastWrite' = "init_from"
    /\ UNCHANGED <<shared, locks, pc, resource_version, streamVars, extVars,
                   pollHist, touched, gone, seen>>

\* Informer::init_from(v), the builder step between new() and the first poll().
init_from(v) ==
    /\ pollNo = 0
    /\ initArg = NoRV
    /\ epc = "idle"
    /\ versionLock = "free"
    /\ version' = v
    /\ initArg' = v
    /\ lastWrite' = "init_from"
    /\ UNCHANGED <<needs_resync, needs_retry, locks, pc, resource_version,
                   streamVars, extVars, pollHist, touched, gone, seen>>

\* ------------------------------------------------------------------ poll()
\* The caller begins a poll() call.  By the contract of poll() no stream it
\* returned earlier is still being drained.
PollCall ==
    /\ pc = "idle"
    /\ stream # "open"
    /\ pc' = "l77"
    /\ stream' = "none"
    /\ raw' = <<>>
    /\ out' = <<>>
    /\ slept' = 0
    /\ flagged' = "unchecked"
    /\ pollNo' = IF pollNo < 2 THEN pollNo + 1 ELSE pollNo
    /\ UNCHANGED <<shared, locks, resource_version, event, spc, extVars,
                   lastResult, gone, tokenHist>>

\* line 77: let mut needs_retry = self.needs_retry.lock().await
PollLockRetry ==
    /\ pc = "l77"
    /\ retryLock = "free"
    /\ retryLock' = "poll"
    /\ pc' = "l78"
    /\ UNCHANGED <<shared, versionLock, resyncLock, resource_version, streamVars,
                   extVars, pollHist, gone, tokenHist>>

\* The needs_resync guard of line 78 dropped at once instead of at line 90.
PollLockResync_NoGuard ==
    /\ pc = "l78"
    /\ resyncLock = "free"
    /\ pc' = "l79"
    /\ UNCHANGED <<shared, locks, resource_version, streamVars, extVars,
                   pollHist, gone, tokenHist>>

\* line 78: let mut needs_resync = self.needs_resync.lock().await
PollLockResync ==
    /\ pc = "l78"
    /\ resyncLock = "free"
    /\ resyncLock' = "poll"
    /\ pc' = "l79"
    /\ UNCHANGED <<shared, versionLock, retryLock, resource_version, streamVars,
                   extVars, pollHist, gone, tokenHist>>

FlagsFound ==
    IF needs_resync /\ needs_retry THEN "both"
    ELSE IF needs_resync THEN "resync"
    ELSE IF needs_retry THEN "retry"
    ELSE "clear"

\* The check of line 79 taken as always true.
PollCheck_AlwaysDelays ==
    /\ pc = "l79"
    /\ flagged' = FlagsFound
    /\ pc' = "l82"
    /\ UNCHANGED <<shared, locks, resource_version, streamVars, extVars,
                   slept, lastResult, pollNo, gone, tokenHist>>

\* line 79: if *needs_resync || *needs_retry; line 90 drops both guards
PollCheck ==
    /\ pc = "l79"
    /\ flagged' = FlagsFound
    /\ IF needs_resync \/ needs_retry
         THEN /\ pc' = "l82"
              /\ UNCHANGED <<resyncLock, retryLock>>
         ELSE /\ pc' = "l93"
              /\ resyncLock' = "free"
              /\ retryLock' = "free"
    /\ UNCHANGED <<shared, versionLock, resource_version, streamVars, extVars,
                   slept, lastResult, pollNo, gone, tokenHist>>

\* lines 81-82: delay_for(dur).await, both flag guards held
PollDelay ==
    /\ pc = "l82"
    /\ slept' = slept + BackoffSecs
    /\ pc' = "l84"
    /\ UNCHANGED <<shared, locks, resource_version, streamVars, extVars,
                   flagged, lastResult, pollNo, gone, tokenHist>>

\* Lines 84-86 left out: the backoff without the reset.
PollResync_NoReset ==
    /\ pc = "l84"
    /\ pc' = "l87"
    /\ UNCHANGED <<shared, locks, resource_version, streamVars, extVars,
                   pollHist, gone, tokenHist>>

\* lines 84-85: if *needs_resync { self.reset().await }, up to reset()'s
\* acquisition of the version mutex
PollResync ==
    /\ pc = "l84"
    /\ IF needs_resync
         THEN /\ versionLock = "free"
              /\ versionLock' = "poll"
              /\ pc' = "l150"
         ELSE /\ pc' = "l87"
              /\ UNCHANGED versionLock
    /\ UNCHANGED <<shared, resyncLock, retryLock, resource_version, streamVars,
                   extVars, pollHist, gone, tokenHist>>

\* line 150, run from line 85: *self.version.lock().await = 0.to_string()
PollResetWrite ==
    /\ pc = "l150"
    /\ version' = Sentinel
    /\ versionLock' = "free"
    /\ lastWrite' = "reset"
    /\ pc' = "l87"
    /\ UNCHANGED <<needs_resync, needs_retry, resyncLock, retryLock,
                   resource_version, streamVars, extVars, pollHist, gone,
                   touched, seen, initArg>>

\* Line 87 left out: only needs_retry is cleared.
PollClear_KeepsResync ==
    /\ pc = "l87"
    /\ needs_retry' = FALSE
    /\ resyncLock' = "free"
    /\ retryLock' = "free"
    /\ pc' = "l93"
    /\ UNCHANGED <<version, needs_resync, versionLock, resource_version,
                   streamVars, extVars, pollHist, gone, tokenHist>>

\* lines 87-90: both flags cleared, both guards dropped
PollClear ==
    /\ pc = "l87"
    /\ needs_resync' = FALSE
    /\ needs_retry' = FALSE
    /\ resyncLock' = "free"
    /\ retryLock' = "free"
    /\ pc' = "l93"
    /\ UNCHANGED <<version, versionLock, resource_version, streamVars, extVars,
                   pollHist, gone, tokenHist>>

\* line 93: self.version.lock().await
PollLockVersion ==
    /\ pc = "l93"
    /\ versionLock = "free"
    /\ versionLock' = "poll"
    /\ pc' = "l93c"
    /\ UNCHANGED <<shared, resyncLock, retryLock, resource_version, streamVars,
                   extVars, pollHist, gone, tokenHist>>

\* The guard of line 93 bound to a name and so kept to the end of poll().
PollReadVersion_KeepsGuard ==
    /\ pc = "l93c"
    /\ resource_version' = version
    /\ touched' = FALSE
    /\ pc' = "l94"
    /\ UNCHANGED <<shared, locks, streamVars, extVars, pollHist, gone,
                   lastWrite, seen, initArg>>

\* line 93: let resource_version = <guard>.clone(); the guard is dropped
PollReadVersion ==
    /\ pc = "l93c"
    /\ resource_version' = version
    /\ versionLock' = "free"
    /\ touched' = FALSE
    /\ pc' = "l94"
    /\ UNCHANGED <<shared, resyncLock, retryLock, streamVars, extVars, pollHist,
                   gone, lastWrite, seen, initArg>>

\* line 94: self.resource.watch(..)? fails and poll() returns the error
PollWatchErr ==
    /\ pc = "l94"
    /\ pc' = "idle"
    /\ resource_version' = NoRV
    /\ lastResult' = "watch_err"
    /\ gone' = FALSE
    /\ UNCHANGED <<shared, locks, streamVars, extVars, slept, flagged, pollNo,
                   tokenHist>>

\* lines 94-101: the request is built and sent; poll() awaits the Transport
PollRequest ==
    /\ pc = "l94"
    /\ pc' = "l101"
    /\ UNCHANGED <<shared, locks, resource_version, streamVars, extVars,
                   pollHist, gone, tokenHist>>

\* lines 104-136: Ok(events) => Ok(events.then(..))
PollOpenOk ==
    /\ pc = "l101"
    /\ stream' = "open"
    /\ raw' = <<>>
    /\ out' = <<>>
    /\ resource_version' = NoRV
    /\ slept' = 0
    /\ flagged' = "unchecked"
    /\ lastResult' = "ok"
    /\ gone' = FALSE
    /\ pc' = "idle"
    /\ UNCHANGED <<shared, locks, event, spc, extVars, pollNo, tokenHist>>

\* lines 137-140: Err(e) => .. self.needs_retry.lock().await
PollOpenErr ==
    /\ pc = "l101"
    /\ retryLock = "free"
    /\ retryLock' = "poll"
    /\ pc' = "l140"
    /\ UNCHANGED <<shared, versionLock, resyncLock, resource_version, streamVars,
                   extVars, pollHist, gone, tokenHist>>

\* The failure branch storing true, as the comment of line 139 intends.
PollErrReturn_SetsRetry ==
    /\ pc = "l140"
    /\ needs_retry' = TRUE
    /\ retryLock' = "free"
    /\ lastResult' = "open_err"
    /\ gone' = FALSE
    /\ pc' = "idle"
    /\ UNCHANGED <<version, needs_resync, versionLock, resyncLock,
                   resource_version, streamVars, extVars, slept, flagged,
                   pollNo, tokenHist>>

\* The failure branch marking the session for a resync instead.
PollErrReturn_SetsResync ==
    /\ pc = "l140"
    /\ needs_resync' = TRUE
    /\ retryLock' = "free"
    /\ lastResult' = "open_err"
    /\ gone' = FALSE
    /\ pc' = "idle"
    /\ UNCHANGED <<version, needs_retry, versionLock, resyncLock,
                   resource_version, streamVars, extVars, slept, flagged,
                   pollNo, tokenHist>>

\* lines 140-141: *<guard> = false; Err(e)
PollErrReturn ==
    /\ pc = "l140"
    /\ needs_retry' = FALSE
    /\ retryLock' = "free"
    /\ lastResult' = "open_err"
    /\ gone' = FALSE
    /\ pc' = "idle"
    /\ UNCHANGED <<version, needs_resync, versionLock, resyncLock,
                   resource_version, streamVars, extVars, slept, flagged,
                   pollNo, tokenHist>>

\* ------------------------------------------------- the stream poll() returned
\* The Transport delivers the next raw item and the `then` closure is entered.
StreamNext(item) ==
    /\ stream = "open"
    /\ spc = "idle"
    /\ Len(raw) < MaxItems
    /\ raw' = Append(raw, item)
    /\ event' = item
    /\ seen' = IF HasResourceVer(item) THEN seen \cup {item.rv} ELSE seen
    /\ spc' = "l112"
    /\ UNCHANGED <<shared, locks, pc, resource_version, stream, out, extVars,
                   pollHist, gone, touched, lastWrite, initArg>>

\* The server closes the connection: the raw stream ends.
StreamEnd ==
    /\ stream = "open"
    /\ spc = "idle"
    /\ stream' = "ended"
    /\ UNCHANGED <<shared, locks, pc, resource_version, raw, out, event, spc,
                   extVars, pollHist, gone, tokenHist>>

\* The caller abandons the stream before its end.
StreamDrop ==
    /\ stream = "open"
    /\ spc = "idle"
    /\ pc = "idle"
    /\ stream' = "dropped"
    /\ UNCHANGED <<shared, locks, pc, resource_version, raw, out, event, spc,
                   extVars, pollHist, gone, tokenHist>>

\* The token update handed to a later task: the closure goes on to yield.
InterceptLockVersion_Deferred ==
    /\ spc = "l112"
    /\ UpdatesVersion(event)
    /\ spc' = "l133"
    /\ UNCHANGED <<shared, locks, pc, resource_version, stream, raw, out, event,
                   extVars, pollHist, gone, tokenHist>>

\* lines 113-119: Added | Modified | Deleted with Some(nv): version.lock().await
InterceptLockVersion ==
    /\ spc = "l112"
    /\ UpdatesVersion(event)
    /\ versionLock = "free"
    /\ versionLock' = "stream"
    /\ spc' = "l119"
    /\ UNCHANGED <<shared, resyncLock, retryLock, pc, resource_version, stream,
                   raw, out, event, extVars, pollHist, gone, tokenHist>>

\* The closure taking the needs_resync mutex under the version guard.
InterceptWriteVersion_NestsLocks ==
    /\ spc = "l119"
    /\ resyncLock = "free"
    /\ version' = event.rv
    /\ versionLock' = "free"
    /\ touched' = TRUE
    /\ lastWrite' = "event"
    /\ spc' = "l133"
    /\ UNCHANGED <<needs_resync, needs_retry, resyncLock, retryLock, pc,
                   resource_version, stream, raw, out, event, extVars, pollHist,
                   gone, seen, initArg>>

\* The closure storing the version of the stream's first item.
InterceptWriteVersion_Stale ==
    /\ spc = "l119"
    /\ version' = IF HasResourceVer(raw[1]) THEN raw[1].rv ELSE event.rv
    /\ versionLock' = "free"
    /\ touched' = TRUE
    /\ lastWrite' = "event"
    /\ spc' = "l133"
    /\ UNCHANGED <<needs_resync, needs_retry, resyncLock, retryLock, pc,
                   resource_version, stream, raw, out, event, extVars, pollHist,
                   gone, seen, initArg>>

\* line 119: *<guard> = nv.clone()
InterceptWriteVersion ==
    /\ spc = "l119"
    /\ version' = event.rv
    /\ versionLock' = "free"
    /\ touched' = TRUE
    /\ lastWrite' = "event"
    /\ spc' = "l133"
    /\ UNCHANGED <<needs_resync, needs_retry, resyncLock, retryLock, pc,
                   resource_version, stream, raw, out, event, extVars, pollHist,
                   gone, seen, initArg>>

\* lines 122-126: Error(e) with e.code == 410: needs_resync.lock().await
InterceptLockResync ==
    /\ spc = "l112"
    /\ IsGone(event)
    /\ resyncLock = "free"
    /\ resyncLock' = "stream"
    /\ spc' = "l126"
    /\ UNCHANGED <<shared, versionLock, retryLock, pc, resource_version, stream,
                   raw, out, event, extVars, pollHist, gone, tokenHist>>

\* The 410 arm resetting the token on the spot, without reset().
InterceptSetResync_Resets ==
    /\ spc = "l126"
    /\ needs_resync' = TRUE
    /\ version' = Sentinel
    /\ resyncLock' = "free"
    /\ spc' = "l133"
    /\ UNCHANGED <<needs_retry, versionLock, retryLock, pc, resource_version,
                   stream, raw, out, event, extVars, pollHist, gone, tokenHist>>

\* line 126: *<guard> = true
InterceptSetResync ==
    /\ spc = "l126"
    /\ needs_resync' = TRUE
    /\ resyncLock' = "free"
    /\ spc' = "l133"
    /\ UNCHANGED <<version, needs_retry, versionLock, retryLock, pc,
                   resource_version, stream, raw, out, event, extVars, pollHist,
                   gone, tokenHist>>

\* The arms that change nothing: an object event without a resourceVersion
\* (line 118), an Error with another code (line 124), Err(e) (lines 129-131).
InterceptPass ==
    /\ spc = "l112"
    /\ ~UpdatesVersion(event)
    /\ ~IsGone(event)
    /\ spc' = "l133"
    /\ UNCHANGED <<shared, locks, pc, resource_version, stream, raw, out, event,
                   extVars, pollHist, gone, tokenHist>>

\* The stream closed by the closure once it has yielded a 410.
InterceptYield_EndsOnGone ==
    /\ spc = "l133"
    /\ out' = Append(out, event)
    /\ stream' = IF IsGone(event) THEN "ended" ELSE stream
    /\ gone' = (gone \/ IsGone(event))
    /\ event' = NoItem
    /\ spc' = "idle"
    /\ UNCHANGED <<shared, locks, pc, resource_version, raw, extVars, pollHist,
                   tokenHist>>

\* The closure swallowing transport-level item failures.
InterceptYield_DropsErr ==
    /\ spc = "l133"
    /\ out' = IF event.kind = "Err" THEN out ELSE Append(out, event)
    /\ gone' = (gone \/ IsGone(event))
    /\ event' = NoItem
    /\ spc' = "idle"
    /\ UNCHANGED <<shared, locks, pc, resource_version, stream, raw, extVars,
                   pollHist, tokenHist>>

\* line 133: the closure's value is `event`, which the stream yields
InterceptYield ==
    /\ spc = "l133"
    /\ out' = Append(out, event)
    /\ gone' = (gone \/ IsGone(event))
    /\ event' = NoItem
    /\ spc' = "idle"
    /\ UNCHANGED <<shared, locks, pc, resource_version, stream, raw, extVars,
                   pollHist, tokenHist>>

\* ------------------------------------- reset() and version() of another context
\* line 150: self.version.lock().await
ResetLock ==
    /\ epc = "idle"
    /\ versionLock = "free"
    /\ versionLock' = "ext"
    /\ epc' = "l150"
    /\ UNCHANGED <<shared, resyncLock, retryLock, pc, resource_version,
                   streamVars, vret, pollHist, gone, tokenHist>>

\* reset() that also withdraws the pending resync.
ResetWrite_ClearsFlag ==
    /\ epc = "l150"
    /\ version' = Sentinel
    /\ needs_resync' = FALSE
    /\ versionLock' = "free"
    /\ touched' = TRUE
    /\ lastWrite' = "reset"
    /\ epc' = "idle"
    /\ UNCHANGED <<needs_retry, resyncLock, retryLock, pc, resource_version,
                   streamVars, vret, pollHist, gone, seen, initArg>>

\* reset() that acts only on a session marked for a resync.
ResetWrite_OnlyWhenDesynced ==
    /\ epc = "l150"
    /\ version' = IF needs_resync THEN Sentinel ELSE version
    /\ versionLock' = "free"
    /\ touched' = TRUE
    /\ lastWrite' = "reset"
    /\ epc' = "idle"
    /\ UNCHANGED <<needs_resync, needs_retry, resyncLock, retryLock, pc,
                   resource_version, streamVars, vret, pollHist, gone, seen,
                   initArg>>

\* line 150: *<guard> = 0.to_string()
ResetWrite ==
    /\ epc = "l150"
    /\ version' = Sentinel
    /\ versionLock' = "free"
    /\ touched' = TRUE
    /\ lastWrite' = "reset"
    /\ epc' = "idle"
    /\ UNCHANGED <<needs_resync, needs_retry, resyncLock, retryLock, pc,
                   resource_version, streamVars, vret, pollHist, gone, seen,
                   initArg>>

\* line 157: self.version.lock().await
VersionLock ==
    /\ epc = "idle"
    /\ versionLock = "free"
    /\ versionLock' = "ext"
    /\ epc' = "l157"
    /\ UNCHANGED <<shared, resyncLock, retryLock, pc, resource_version,
                   streamVars, vret, pollHist, gone, tokenHist>>

\* line 157: <guard>.clone() is the value of version()
VersionRead ==
    /\ epc = "l157"
    /\ vret' = version
    /\ versionLock' = "free"
    /\ epc' = "l158"
    /\ UNCHANGED <<shared, resyncLock, retryLock, pc, resource_version,
                   streamVars, pollHist, gone, tokenHist>>

\* line 158: version() has returned and its caller goes on
VersionReturn ==
    /\ epc = "l158"
    /\ vret' = NoRV
    /\ epc' = "idle"
    /\ UNCHANGED <<shared, locks, pc, resource_version, streamVars, pollHist,
                   gone, tokenHist>>

Next ==
    \/ \E v \in InitTokens : init_from(v)
    \/ PollCall
    \/ PollLockRetry
    \/ PollLockResync
    \/ PollCheck
    \/ PollDelay
    \/ PollResync
    \/ PollResetWrite
    \/ PollClear
    \/ PollLockVersion
    \/ PollReadVersion
    \/ PollWatchErr
    \/ PollRequest
    \/ PollOpenOk
    \/ PollOpenErr
    \/ PollErrReturn
    \/ \E item \in Items : StreamNext(item)
    \/ StreamEnd
    \/ StreamDrop
    \/ InterceptLockVersion
    \/ InterceptWriteVersion
    \/ InterceptLockResync
    \/ InterceptSetResync
    \/ InterceptPass
    \/ InterceptYield
    \/ ResetLock
    \/ ResetWrite
    \/ VersionLock
    \/ VersionRead
    \/ VersionReturn

Spec == Init /\ [][Next]_vars

\* ------------------------------------------- a stream drained during poll()
\* A poll() call begun by one context while another context still drains
\* the stream of the previous call (the handle is Clone, line 17, and the
\* stream does not borrow it).
PollCallConc ==
    /\ pc = "idle"
    /\ pc' = "l77"
    /\ slept' = 0
    /\ flagged' = "unchecked"
    /\ pollNo' = IF pollNo < 2 THEN pollNo + 1 ELSE pollNo
    /\ UNCHANGED <<shared, locks, resource_version, streamVars, extVars,
                   lastResult, gone, tokenHist>>

\* lines 104-136; the stream drained so far is given up, between two items,
\* when the new one is returned.
PollOpenOkConc ==
    /\ spc = "idle"
    /\ PollOpenOk

\* One item of each arm of the closure's match: the items the Transport
\* delivers on a stream that is drained during poll().
ConcItems ==
    { [kind |-> "Added", rv |-> "1", code |-> 0],
      [kind |-> "Error", rv |-> NoRV, code |-> Gone],
      [kind |-> "Err", rv |-> NoRV, code |-> 0] }

NextConc ==
    \/ PollCallConc
    \/ PollLockRetry
    \/ PollLockResync
    \/ PollCheck
    \/ PollDelay
    \/ PollResync
    \/ PollResetWrite
    \/ PollClear
    \/ PollLockVersion
    \/ PollReadVersion
    \/ PollWatchErr
    \/ PollRequest
    \/ PollOpenOkConc
    \/ PollOpenErr
    \/ PollErrReturn
    \/ \E item \in ConcItems : StreamNext(item)
    \/ StreamEnd
    \/ StreamDrop
    \/ InterceptLockVersion
    \/ InterceptWriteVersion
    \/ InterceptLockResync
    \/ InterceptSetResync
    \/ InterceptPass
    \/ InterceptYield
    \/ ResetLock
    \/ ResetWrite
    \/ VersionLock
    \/ VersionRead
    \/ VersionReturn

SpecConc == Init /\ [][NextConc]_vars

TypeOK ==
    /\ version \in Tokens
    /\ needs_resync \in BOOLEAN
    /\ needs_retry \in BOOLEAN
    /\ versionLock \in {"free", "poll", "stream", "ext"}
    /\ resyncLock \in {"free", "poll", "stream"}
    /\ retryLock \in {"free", "poll"}
    /\ resource_version \in Tokens \cup {NoRV}
    /\ stream \in {"none", "open", "ended", "dropped"}
    /\ Len(raw) <= MaxItems
    /\ vret \in Tokens \cup {NoRV}

\* ------------------------------------------------------------- properties
\* Positions of poll() after the pre-flight block of lines 76-90.
AfterPreflight == {"l93", "l93c", "l94", "l101", "l140"}
\* Positions of poll() at which the watch request has been issued.
RequestIssued == {"l101", "l140"}

AllVersioned(s) ==
    \A i \in 1..Len(s) :
        s[i].kind \in {"Added", "Modified", "Deleted"} /\ s[i].rv # NoRV

\* C1: once a stream has yielded an Error event with code 410, the request
\* the next poll() call issues carries the sentinel token, whatever the token
\* was and whatever object events the stream carried around the 410.
C1_ResyncRequestsSentinel ==
    (gone /\ pc \in RequestIssued) => resource_version = Sentinel

C1_Witness ==
    /\ gone
    /\ pc = "l101"
    /\ flagged = "resync"
    /\ seen # {}
    /\ lastWrite = "reset"
    /\ resource_version = Sentinel

\* C2: a poll() call whose Transport open failed has set needs_retry when it
\* returns, and the poll() call that follows it performs the backoff wait
\* before it calls the Transport again.
C2_OpenFailureSetsRetry ==
    /\ (pc = "idle" /\ lastResult = "open_err") => needs_retry
    /\ (pc = "l101" /\ pollNo = 2 /\ lastResult = "open_err") => slept = BackoffSecs

\* C3: an open failure leaves the token as it was read for the request, and
\* the next poll() call issues its request with the same token, when no
\* event and no manual reset() wrote the token in between.
C3_OpenFailureKeepsToken ==
    /\ []((pc = "idle" /\ lastResult = "open_err" /\ ~touched)
            => version = resource_version)
    /\ [][(pc = "l93c" /\ pc' = "l94" /\ lastResult = "open_err" /\ ~touched)
            => resource_version' = resource_version]_vars

C3_Witness ==
    /\ pc = "l101"
    /\ lastResult = "open_err"
    /\ ~touched
    /\ resource_version \in EventTokens
    /\ version = resource_version

\* C4: when a stream that delivered only Added/Modified/Deleted events, each
\* with a version token, has been drained to its end, and no reset() ran
\* after its last event, version() is the token of the last event.
C4_DrainedVersionIsLast ==
    (/\ stream = "ended"
     /\ raw # <<>>
     /\ AllVersioned(raw)
     /\ lastWrite = "event")
        => version = raw[Len(raw)].rv

C4_Witness ==
    /\ stream = "ended"
    /\ Len(out) = 2
    /\ AllVersioned(raw)
    /\ raw[1].rv = "2"
    /\ raw[2].rv = "1"
    /\ raw[2].kind = "Deleted"
    /\ version = "1"

\* C5: the items the stream has yielded are, item for item and in order, the
\* items the Transport delivered; only the item the closure is processing
\* has not been yielded yet.
C5_PassThrough ==
    /\ Len(out) <= Len(raw)
    /\ out = SubSeq(raw, 1, Len(out))
    /\ Len(raw) <= Len(out) + 1
    /\ spc = "idle" => out = raw

C5_Witness ==
    /\ stream = "ended"
    /\ Len(out) = 2
    /\ out[1].kind = "Err"
    /\ out[2].kind = "Error"
    /\ out = raw

\* C6: a poll() call that found needs_resync or needs_retry set has waited
\* the backoff exactly once when it builds its request, and both flags are
\* false then.
C6_OneWaitFlagsCleared ==
    (pc \in AfterPreflight /\ flagged \in {"resync", "retry", "both"})
        => (slept = BackoffSecs /\ ~needs_resync /\ ~needs_retry)

C6_Witness ==
    /\ pc = "l93"
    /\ flagged = "resync"
    /\ slept = BackoffSecs
    /\ ~needs_resync
    /\ ~needs_retry

\* C7: a poll() call that found both flags false has not waited, also when
\* it returns an open failure, and none of its steps up to the request
\* construction writes the token.
C7_NoWaitWhenUnflagged ==
    /\ [](flagged = "clear" => slept = 0)
    /\ [][(pc' # pc /\ pc' \in {"l78", "l79", "l82", "l93"}
            /\ flagged' \in {"unchecked", "clear"})
            => version' = version]_vars

C7_Witness ==
    /\ pc = "idle"
    /\ lastResult = "open_err"
    /\ flagged = "clear"
    /\ slept = 0
    /\ version \in EventTokens

\* C8: the token is always the sentinel, the argument of init_from or the
\* version token of a delivered entity, and it becomes the sentinel only in
\* reset(), called by poll() or by another context.
C8_TokenProvenance ==
    /\ [](version \in ({Sentinel} \cup seen
                        \cup (IF initArg = NoRV THEN {} ELSE {initArg})))
    /\ [][(version' = Sentinel /\ version # Sentinel)
            => \/ (pc = "l150" /\ pc' = "l87")
               \/ (epc = "l150" /\ epc' = "idle")]_vars

C8_Witness ==
    /\ version \in seen
    /\ initArg = "42"
    /\ version # initArg
    /\ needs_resync
    /\ lastWrite = "event"

\* C9: a new session has the sentinel token and both flags false; its first
\* poll() call does not wait and issues its request with the sentinel, or
\* with v when init_from(v) came first (no reset() having run before).
C9_FirstPollToken ==
    /\ (pollNo = 0 /\ lastWrite = "new")
            => (version = Sentinel /\ ~needs_resync /\ ~needs_retry)
    /\ (pollNo = 1 /\ pc \in RequestIssued)
            => /\ slept = 0
               /\ lastWrite = "new" => resource_version = Sentinel
               /\ lastWrite = "init_from" => resource_version = initArg

C9_Witness ==
    /\ pollNo = 1
    /\ pc = "l101"
    /\ lastWrite = "init_from"
    /\ initArg = "42"
    /\ resource_version = "42"
    /\ slept = 0

\* C10: whenever reset() was the last operation to write the token, the
\* token is the sentinel and a version() call returns the sentinel.
C10_ResetSetsSentinel ==
    /\ [](lastWrite = "reset" => version = Sentinel)
    /\ [][(epc = "l157" /\ epc' = "l158" /\ lastWrite = "reset")
            => vret' = Sentinel]_vars

C10_Witness ==
    /\ stream = "open"
    /\ Len(out) = 1
    /\ out[1].kind = "Added"
    /\ out[1].rv = "1"
    /\ ~needs_resync
    /\ lastWrite = "reset"
    /\ vret = Sentinel
    /\ epc = "l158"

\* C11 (as claimed): a poll() call fails only when the Transport's open
\* fails.
C11_OnlyOpenFailureFails ==
    (pc = "idle" /\ lastResult \notin {"none", "ok"}) => lastResult = "open_err"

\* C11 (amended): a poll() call returns a failure only from the request
\* construction of line 94 or from the failed open of lines 137-141; no step
\* of the closure, whatever the item, ends the poll() call, changes its
\* result or ends the stream.
C11_FailuresAndStreamItems ==
    /\ [][(pc # "idle" /\ pc' = "idle" /\ lastResult' # "ok")
            => (pc \in {"l94", "l140"}
                /\ lastResult' = (IF pc = "l94" THEN "watch_err" ELSE "open_err"))]_vars
    /\ [][spc' # spc
            => (stream' = stream /\ pc' = pc /\ lastResult' = lastResult)]_vars

C11_Witness ==
    /\ stream = "open"
    /\ lastResult = "ok"
    /\ Len(out) = 2
    /\ out[1].kind = "Error"
    /\ out[1].code = Gone
    /\ out[2].kind = "Added"
    /\ out[2].rv = "1"
    /\ version = "1"

\* C12: poll() holds none of the three locks while it awaits the Transport's
\* open, the stream holds none while it awaits its next raw item, and the
\* version lock is held only at a position whose next step releases it, so
\* reset() and version() never wait for the network or for the backoff.
C12_NoLockAcrossNetwork ==
    /\ pc = "l101"
        => (versionLock # "poll" /\ resyncLock # "poll" /\ retryLock # "poll")
    /\ spc = "idle" => (versionLock # "stream" /\ resyncLock # "stream")
    /\ versionLock = "poll" => pc \in {"l150", "l93c"}
    /\ versionLock = "stream" => spc = "l119"
    /\ versionLock = "ext" => epc \in {"l150", "l157"}

C12_Witness ==
    /\ pc = "l101"
    /\ epc = "l157"
    /\ versionLock = "ext"
    /\ resyncLock = "free"
    /\ retryLock = "free"

\* C13: the steps of the closure on an Added/Modified/Deleted event without
\* a version token leave the token and both flags as they are, and the
\* event is yielded like any other item.
C13_NoVersionNoUpdate ==
    [][(spc' # spc
        /\ event.kind \in {"Added", "Modified", "Deleted"}
        /\ event.rv = NoRV)
        => /\ version' = version
           /\ needs_resync' = needs_resync
           /\ needs_retry' = needs_retry
           /\ spc' \in {"l133", "idle"}
           /\ spc' = "idle" => out' = Append(out, event)]_vars

C13_Witness ==
    /\ spc = "idle"
    /\ Len(out) = 2
    /\ out[1].rv = "1"
    /\ out[2].kind = "Modified"
    /\ out[2].rv = NoRV
    /\ version = "1"
    /\ ~needs_resync

\* C14: the steps of the closure on an Error event with another code than
\* 410, or on a transport-level item failure, leave the token and both flags
\* as they are; a stream without a 410 leaves needs_resync false, and a
\* poll() call finds needs_resync set only after a 410 was yielded.
C14_OtherErrorsChangeNothing ==
    /\ [][(spc' # spc
           /\ (event.kind = "Err" \/ (event.kind = "Error" /\ event.code # Gone)))
            => (version' = version /\ needs_resync' = needs_resync
                /\ needs_retry' = needs_retry)]_vars
    /\ []((stream # "none"
           /\ \A i \in 1..Len(raw) :
                ~(raw[i].kind = "Error" /\ raw[i].code = Gone))
            => ~needs_resync)
    /\ []((pc # "idle" /\ flagged = "resync") => gone)

C14_Witness ==
    /\ stream = "ended"
    /\ out = raw
    /\ Len(out) = 2
    /\ out[1].kind = "Error"
    /\ out[1].code = 500
    /\ out[2].kind = "Err"
    /\ ~needs_resync
    /\ ~needs_retry

\* C15: when the closure is about to hand an item to the caller, the state
\* change of that item is done: the token is the version of a versioned
\* Added/Modified/Deleted event (no reset() having run since), needs_resync
\* is set for a 410; and the item in the closure is the only one delivered
\* and not yet yielded.
C15_UpdateBeforeYield ==
    /\ (spc = "l133"
        /\ event.kind \in {"Added", "Modified", "Deleted"}
        /\ event.rv # NoRV
        /\ lastWrite # "reset")
        => version = event.rv
    /\ (spc = "l133" /\ event.kind = "Error" /\ event.code = Gone)
        => needs_resync
    /\ spc # "idle" => (Len(raw) = Len(out) + 1 /\ event = raw[Len(raw)])

C15_Witness ==
    /\ spc = "l133"
    /\ Len(out) = 1
    /\ out[1].rv = "1"
    /\ event.kind = "Deleted"
    /\ event.rv = "2"
    /\ version = "2"

\* The order of the version tokens, oldest first.
TokenNum(t) ==
    CASE t = "0" -> 0
      [] t = "1" -> 1
      [] t = "2" -> 2
      [] t = "42" -> 42

\* C16 (as claimed): the token moves to an older version only in reset().
C16_NeverRolledBack ==
    [][TokenNum(version') < TokenNum(version)
        => \/ (pc = "l150" /\ pc' = "l87")
           \/ (epc = "l150" /\ epc' = "idle")]_vars

\* C16 (amended): the token changes only in reset(), in init_from before the
\* first poll(), and in the closure, which stores the version of the event
\* it is processing, older than the current token or not.
C16_ChangesOnlyByResetOrEvent ==
    [][version' # version
        => \/ (pc = "l150" /\ pc' = "l87" /\ version' = Sentinel)
           \/ (epc = "l150" /\ epc' = "idle" /\ version' = Sentinel)
           \/ (pollNo = 0 /\ initArg = NoRV /\ version' = initArg')
           \/ (/\ spc = "l119"
               /\ spc' = "l133"
               /\ event = raw[Len(raw)]
               /\ event.kind \in {"Added", "Modified", "Deleted"}
               /\ version' = event.rv)]_vars

C16_Witness ==
    /\ stream = "open"
    /\ spc = "idle"
    /\ Len(out) = 2
    /\ out[1].rv = "2"
    /\ out[2].kind = "Modified"
    /\ out[2].rv = "1"
    /\ lastWrite = "event"
    /\ version = "1"

C19_ResetAfterWait ==
    /\ [][(spc' # spc /\ event.kind = "Error") => version' = version]_vars
    /\ [](pc = "l150" => slept = BackoffSecs)
    /\ [][(pc' # pc /\ pc \in {"l77", "l78", "l79", "l82", "l84"})
            => version' = version]_vars
    /\ [][(needs_resync /\ ~needs_resync') => (pc = "l87" /\ pc' = "l93")]_vars

C19_Witness ==
    /\ pc = "l84"
    /\ needs_resync
    /\ slept = BackoffSecs
    /\ version \in EventTokens
    /\ lastWrite = "event"

\* The steps inside an operation that has begun: every step of poll() after
\* its call, of the closure after the delivery of its item, of reset() and
\* version() after their lock.
OperationStep ==
    \/ PollLockRetry \/ PollLockResync \/ PollCheck \/ PollDelay \/ PollResync
    \/ PollResetWrite \/ PollClear \/ PollLockVersion \/ PollReadVersion
    \/ PollWatchErr \/ PollRequest \/ PollOpenOkConc \/ PollOpenErr
    \/ PollErrReturn
    \/ InterceptLockVersion \/ InterceptWriteVersion \/ InterceptLockResync
    \/ InterceptSetResync \/ InterceptPass \/ InterceptYield
    \/ ResetWrite \/ VersionRead \/ VersionReturn

\* The holder of the lock poll() is waiting for, "free" when it waits for none.
PollAwaits ==
    IF pc = "l77" THEN retryLock
    ELSE IF pc = "l78" THEN resyncLock
    ELSE IF pc = "l93" \/ (pc = "l84" /\ needs_resync) THEN versionLock
    ELSE "free"

\* The holder of the lock the closure is waiting for.
StreamAwaits ==
    IF spc = "l112" /\ event.kind = "Error" /\ event.code = Gone THEN resyncLock
    ELSE IF spc = "l112" /\ event.kind \in {"Added", "Modified", "Deleted"}
            /\ event.rv # NoRV THEN versionLock
    ELSE "free"

\* C17: with a stream drained during poll() and reset()/version() called by
\* another context, no state is a deadlock: while an operation is under way
\* one of the operations under way can take a step; poll() and the closure
\* never wait for each other or for themselves; only poll() holds two or
\* three locks at once, the closure and reset()/version() hold one.
C17_NoDeadlock ==
    /\ (pc # "idle" \/ spc # "idle" \/ epc # "idle") => ENABLED OperationStep
    /\ ~(PollAwaits = "stream" /\ StreamAwaits = "poll")
    /\ PollAwaits # "poll"
    /\ StreamAwaits # "stream"
    /\ ~(versionLock = "stream" /\ resyncLock = "stream")
    /\ versionLock = "poll" =>
            (pc = "l93c" \/ (pc = "l150" /\ resyncLock = "poll" /\ retryLock = "poll"))
    /\ resyncLock = "poll" => retryLock = "poll"

C17_Witness ==
    /\ pc = "l84"
    /\ needs_resync
    /\ retryLock = "poll"
    /\ resyncLock = "poll"
    /\ versionLock = "stream"
    /\ spc = "l119"

\* C20 (as claimed): the poll() call that finds needs_resync set issues its
\* request with the sentinel token, in every interleaving with the closure.
C20_FlaggedPollRequestsSentinel ==
    (pc \in RequestIssued /\ flagged = "resync") => resource_version = Sentinel

\* C20 (amended): from the check of line 79 to the clearing of line 87 no
\* other context changes needs_resync; the flag is cleared only by a poll()
\* call whose check found it and which has waited, and that call runs
\* reset(); its request carries the sentinel unless an object event wrote
\* the token after that reset().
C20_ResyncNotLost ==
    /\ [][(pc \in {"l79", "l82", "l84", "l150", "l87"} /\ pc' = pc)
            => needs_resync' = needs_resync]_vars
    /\ [][(needs_resync /\ ~needs_resync')
            => (pc = "l87" /\ flagged = "resync" /\ slept = BackoffSecs)]_vars
    /\ [][(pc = "l84" /\ pc' # pc /\ flagged = "resync") => pc' = "l150"]_vars
    /\ [][(pc = "l93c" /\ pc' = "l94" /\ flagged = "resync" /\ lastWrite # "event")
            => resource_version' = Sentinel]_vars

C20_Witness ==
    /\ pc = "l82"
    /\ needs_resync
    /\ resyncLock = "poll"
    /\ spc = "l112"
    /\ event.kind = "Error"
    /\ event.code = Gone
    /\ Len(out) = 1
    /\ out[1].kind = "Error"
    /\ out[1].code = Gone

====
